---- MODULE Spec2Model ----
\* Book exchange application (src/app.py): the three tables, the session of
\* one browser, and one action per route.  A request is handled to completion
\* in one step.  Each handler is an operator from the state it is called in
\* (and the request's inputs) to the state it leaves; the route's action
\* moves the system to that state.
EXTENDS Integers, Sequences, FiniteSets, TLC

VARIABLES
    User,           \* table user: row i has id i
    Listing,        \* table listing: row i has id i
    Message,        \* table message: row i has id i
    current_user,   \* id of the user the session is logged in as, 0 = anonymous
    resp,           \* the response to the last request
    context         \* the template context of the last rendered page

vars == <<User, Listing, Message, current_user, resp, context>>

\* ---------------------------------------------------------------- bounds
\* Rows the listing and message tables may hold.  (The user table needs no
\* bound: usernames are unique.)
MaxListings == 1
MaxMessages == 2

\* ------------------------------------------------------- request inputs
\* "" is an empty form field.  The message text is a sequence of characters,
\* so that whitespace can be told from the empty text.
Usernames == {"", "alice", "bob"}
LoginUsernames == {"alice", "bob", "carol"}
Emails == {"a@x", "b@x"}
Passwords == {"", "pw"}
LoginPasswords == {"pw", "bad"}
Contents == {<< >>, <<" ">>}
Titles == {"", "Dune"}
Methods == {"GET", "POST"}
NextPages == {"", "messages_overview"}
\* Readings of datetime.utcnow, an earlier and a later one.  It reads the
\* wall clock, which is not monotonic: a later request may read the earlier.
Times == {0, 1}
ListingIds == 1..(MaxListings + 1)

\* ------------------------------------------------------------- helpers
\* Python truthiness of a form field: `not username`.
truthy(s) == s # ""
\* The same for the message text: `if content:`.
text_always_truthy(content) == TRUE
truthy_text(content) == content # << >>

\* werkzeug's salted hash as an opaque primitive: a digest verifies exactly
\* the password it was made from.
generate_password_hash(password) == <<"digest", password>>
check_password_hash(pwhash, password) == pwhash = <<"digest", password>>

set_password(user, password) ==
    [user EXCEPT !.password_hash = generate_password_hash(password)]
check_password(user, password) == check_password_hash(user.password_hash, password)

\* User.query.filter_by(username=username).first() on table U: the id, 0 for None.
filter_by_username(U, username) ==
    IF \E i \in 1..Len(U) : U[i].username = username
    THEN CHOOSE i \in 1..Len(U) :
            /\ U[i].username = username
            /\ \A j \in 1..(i - 1) : U[j].username # username
    ELSE 0

\* User.query.filter_by(email=email).first() on table U: the id, 0 for None.
email_never_found(U, email) == 0
filter_by_email(U, email) ==
    IF \E i \in 1..Len(U) : U[i].email = email
    THEN CHOOSE i \in 1..Len(U) :
            /\ U[i].email = email
            /\ \A j \in 1..(i - 1) : U[j].email # email
    ELSE 0

\* unique=True on username and on email: the commit of `row` would fail.
unique_violation(U, row) ==
    \E i \in 1..Len(U) : U[i].username = row.username \/ U[i].email = row.email

\* The user loader: the row with that id, 0 for None.
load_user(user_id) == IF user_id \in 1..Len(User) THEN user_id ELSE 0
\* current_user.is_authenticated
is_authenticated == load_user(current_user) # 0

\* login_user(user): the session is that user's from now on.
login_user_keep(session_user, user_id) == session_user
login_user(session_user, user_id) == user_id

flash(message, category) == [message |-> message, category |-> category]
NoFlash == flash("", "")
url_for(endpoint, listing_id) == [endpoint |-> endpoint, listing_id |-> listing_id]
NoLocation == url_for("", 0)

Response(status, notice, location, template) ==
    [status |-> status, flash |-> notice, location |-> location, template |-> template]
redirect(notice, location) == Response(302, notice, location, "")
render_template(notice, template) == Response(200, notice, NoLocation, template)

NoContext == [listing |-> 0, messages |-> << >>, conversations |-> << >>, listings |-> {}]

\* The state a handler leaves when it writes nothing: the tables and the
\* session as they are, the response r and the page context ctx.
answer(r, ctx) ==
    [User |-> User, Listing |-> Listing, Message |-> Message,
     current_user |-> current_user, resp |-> r, context |-> ctx]

\* @login_required on an anonymous request: Flask-Login's unauthorized()
\* flashes its login message and redirects to login_view.
unauthorized ==
    answer(redirect(flash("Please log in to access this page.", "message"),
                    url_for("login", 0)),
           NoContext)

\* ------------------------------------------------------------- register
register(method, username, email, password, confirm) ==
    IF method = "POST"
    THEN IF ~truthy(username) \/ ~truthy(email) \/ ~truthy(password)
         THEN answer(redirect(flash("All fields are required.", "danger"),
                              url_for("register", 0)), NoContext)
         ELSE IF password # confirm
         THEN answer(redirect(flash("Passwords do not match.", "danger"),
                              url_for("register", 0)), NoContext)
         ELSE IF filter_by_username(User, username) # 0
         THEN answer(redirect(flash("Username already taken.", "danger"),
                              url_for("register", 0)), NoContext)
         ELSE IF filter_by_email(User, email) # 0
         THEN answer(redirect(flash("Email already registered.", "danger"),
                              url_for("register", 0)), NoContext)
         ELSE LET new_user == set_password([username |-> username, email |-> email,
                                            password_hash |-> << >>], password) IN
              IF unique_violation(User, new_user)
              THEN \* IntegrityError at commit: an unhandled exception
                   answer(Response(500, NoFlash, NoLocation, ""), NoContext)
              ELSE [answer(redirect(flash("Registration successful! Welcome to the book exchange.",
                                          "success"),
                                    url_for("index", 0)), NoContext)
                       EXCEPT !.User = Append(User, new_user),
                              !.current_user = login_user(current_user, Len(User) + 1)]
    ELSE answer(render_template(NoFlash, "register.html"), NoContext)

\* ---------------------------------------------------------------- login
\* The POST branch as a function of the user table U and the session cu:
\* the session and the response it leaves.
login_post_telling(U, cu, username, password, next_page) ==
    LET user == filter_by_username(U, username) IN
    IF user = 0
    THEN [current_user |-> cu,
          resp |-> redirect(flash("Unknown username.", "danger"), url_for("login", 0))]
    ELSE IF ~check_password(U[user], password)
    THEN [current_user |-> cu,
          resp |-> redirect(flash("Invalid username or password.", "danger"),
                            url_for("login", 0))]
    ELSE [current_user |-> login_user(cu, user),
          resp |-> redirect(flash("Logged in successfully.", "success"),
                            url_for(IF truthy(next_page) THEN next_page ELSE "index", 0))]

login_post(U, cu, username, password, next_page) ==
    LET user == filter_by_username(U, username) IN
    IF user = 0 \/ ~check_password(U[user], password)
    THEN [current_user |-> cu,
          resp |-> redirect(flash("Invalid username or password.", "danger"),
                            url_for("login", 0))]
    ELSE [current_user |-> login_user(cu, user),
          resp |-> redirect(flash("Logged in successfully.", "success"),
                            url_for(IF truthy(next_page) THEN next_page ELSE "index", 0))]

login(method, username, password, next_page) ==
    IF method = "POST"
    THEN LET out == login_post(User, current_user, username, password, next_page) IN
         [answer(out.resp, NoContext) EXCEPT !.current_user = out.current_user]
    ELSE answer(render_template(NoFlash, "login.html"), NoContext)

\* --------------------------------------------------------------- logout
logout ==
    IF ~is_authenticated
    THEN unauthorized
    ELSE [answer(redirect(flash("You have been logged out.", "info"), url_for("index", 0)),
                 NoContext)
             EXCEPT !.current_user = 0]

\* ------------------------------------------------------- listing_detail
\* .order_by(Message.timestamp.asc()): the rows sorted by timestamp, rows of
\* equal timestamp in the order the table scan met them.
RECURSIVE insert_by_timestamp(_, _)
insert_by_timestamp(sorted, msg) ==
    IF sorted = << >> THEN <<msg>>
    ELSE IF sorted[Len(sorted)].timestamp <= msg.timestamp THEN Append(sorted, msg)
    ELSE Append(insert_by_timestamp(SubSeq(sorted, 1, Len(sorted) - 1), msg),
                sorted[Len(sorted)])

RECURSIVE sort_by_timestamp(_)
sort_by_timestamp(rows) ==
    IF rows = << >> THEN << >>
    ELSE insert_by_timestamp(sort_by_timestamp(SubSeq(rows, 1, Len(rows) - 1)),
                             rows[Len(rows)])

order_by_none(rows) == rows
order_by_timestamp(rows) == sort_by_timestamp(rows)

\* The conversation query: the messages of the listing exchanged between the
\* two users, oldest first.
conversation(listing_id, user_a, user_b) ==
    LET between(msg) ==
            /\ msg.listing_id = listing_id
            /\ \/ (msg.sender_id = user_a /\ msg.receiver_id = user_b)
               \/ (msg.sender_id = user_b /\ msg.receiver_id = user_a)
    IN order_by_timestamp(SelectSeq(Message, between))

\* receiver_id = owner.id if current_user.id != owner.id else None (0)
receiver_always_owner(sender_id, owner_id) == owner_id
receiver_for(sender_id, owner_id) == IF sender_id # owner_id THEN owner_id ELSE 0

listing_detail(listing_id, method, content, now) ==
    IF listing_id \notin 1..Len(Listing)
    THEN \* get_or_404
         answer(Response(404, NoFlash, NoLocation, "404.html"), NoContext)
    ELSE LET owner == Listing[listing_id].owner_id IN
         IF is_authenticated
         THEN LET messages == conversation(listing_id, current_user, owner)
                  page == [NoContext EXCEPT !.listing = listing_id, !.messages = messages]
              IN
              IF method = "POST" /\ truthy_text(content)
              THEN IF receiver_for(current_user, owner) = 0
                   THEN answer(render_template(
                                 flash("You cannot message yourself about your own listing.",
                                       "warning"),
                                 "listing_detail.html"), page)
                   ELSE [answer(redirect(flash("Message sent.", "success"),
                                         url_for("listing_detail", listing_id)), NoContext)
                            EXCEPT !.Message = Append(Message,
                                         [id |-> Len(Message) + 1,
                                          sender_id |-> current_user,
                                          receiver_id |-> receiver_for(current_user, owner),
                                          listing_id |-> listing_id,
                                          content |-> content,
                                          timestamp |-> now])]
              ELSE answer(render_template(NoFlash, "listing_detail.html"), page)
         ELSE \* not authenticated: the listing, no messages
              answer(render_template(NoFlash, "listing_detail.html"),
                     [NoContext EXCEPT !.listing = listing_id])

\* ------------------------------------------------------- create_listing
create_listing(method, title, author) ==
    IF ~is_authenticated
    THEN unauthorized
    ELSE IF method = "POST"
    THEN IF ~truthy(title) \/ ~truthy(author)
         THEN answer(redirect(flash("Title and author are required.", "danger"),
                              url_for("create_listing", 0)), NoContext)
         ELSE [answer(redirect(flash("Listing created successfully.", "success"),
                               url_for("listings", 0)), NoContext)
                  EXCEPT !.Listing = Append(Listing, [title |-> title, author |-> author,
                                                      owner_id |-> current_user])]
    ELSE answer(render_template(NoFlash, "create_listing.html"), NoContext)

\* ---------------------------------------------------------- my_listings
\* (The order by created_at is not modelled: the page's listings are a set.)
my_listings ==
    IF ~is_authenticated
    THEN unauthorized
    ELSE answer(render_template(NoFlash, "my_listings.html"),
                [NoContext EXCEPT !.listings =
                    {i \in 1..Len(Listing) : Listing[i].owner_id = current_user}])

\* ---------------------------------------------------- messages_overview
\* The rows of the unordered query `msgs`: the ids of the messages the user
\* sent or received.
involving(user_id) ==
    {i \in 1..Len(Message) :
        Message[i].sender_id = user_id \/ Message[i].receiver_id = user_id}

\* The orders in which the database may return those rows (the query has no
\* ORDER BY): every enumeration of them.
ScanOrders(ids) ==
    {s \in [1..Cardinality(ids) -> ids] : \A i, j \in DOMAIN s : s[i] = s[j] => i = j}

\* msg.timestamp > conversations[key].timestamp
newer_or_equal(msg, kept) == msg.timestamp >= kept.timestamp
older(msg, kept) == msg.timestamp < kept.timestamp
newer(msg, kept) == msg.timestamp > kept.timestamp

\* conversations[key] = msg
put(conversations, key, msg) ==
    [k \in (DOMAIN conversations) \cup {key} |-> IF k = key THEN msg ELSE conversations[k]]

\* The grouping loop over msgs[i..], starting from the dict `conversations`.
RECURSIVE group(_, _, _, _)
group(msgs, i, user_id, conversations) ==
    IF i > Len(msgs) THEN conversations
    ELSE LET msg == msgs[i]
             partner_id == IF msg.sender_id = user_id THEN msg.receiver_id
                           ELSE msg.sender_id
             key == <<msg.listing_id, partner_id>>
         IN group(msgs, i + 1, user_id,
                  IF key \notin DOMAIN conversations
                        \/ newer(msg, conversations[key])
                  THEN put(conversations, key, msg)
                  ELSE conversations)

\* The overview, when the query returns the rows `scan` (message ids) in
\* that order.
messages_overview(scan) ==
    IF ~is_authenticated
    THEN unauthorized
    ELSE LET msgs == [i \in DOMAIN scan |-> Message[scan[i]]] IN
         answer(render_template(NoFlash, "messages.html"),
                [NoContext EXCEPT !.conversations = group(msgs, 1, current_user, << >>)])

\* ------------------------------------------------------------ the system
Init ==
    /\ User = << >>
    /\ Listing = << >>
    /\ Message = << >>
    /\ current_user = 0
    /\ resp = render_template(NoFlash, "index.html")
    /\ context = NoContext

\* The request is answered: the system is in the state the handler left.
\* (Each route below first names the statuses its handler can answer with.)
serve(out) ==
    /\ User' = out.User
    /\ Listing' = out.Listing
    /\ Message' = out.Message
    /\ current_user' = out.current_user
    /\ resp' = out.resp
    /\ context' = out.context

Register(method, username, email, password, confirm) ==
    LET out == register(method, username, email, password, confirm) IN
    /\ out.resp.status \in {200, 302, 500}
    /\ serve(out)

Login(method, username, password, next_page) ==
    LET out == login(method, username, password, next_page) IN
    /\ out.resp.status \in {200, 302}
    /\ serve(out)

Logout ==
    LET out == logout IN
    /\ out.resp.status = 302
    /\ serve(out)

ListingDetail(listing_id, method, content, now) ==
    LET out == listing_detail(listing_id, method, content, now) IN
    /\ Len(out.Message) <= MaxMessages
    /\ serve(out)

CreateListing(method, title, author) ==
    LET out == create_listing(method, title, author) IN
    /\ Len(out.Listing) <= MaxListings
    /\ serve(out)

MyListings ==
    LET out == my_listings IN
    /\ out.resp.status \in {200, 302}
    /\ serve(out)

MessagesOverview ==
    \E scan \in ScanOrders(involving(current_user)) : serve(messages_overview(scan))

Next ==
    \/ Register("GET", "", "", "", "")
    \/ \E u \in Usernames, e \in Emails, p \in Passwords, c \in Passwords :
          Register("POST", u, e, p, c)
    \/ Login("GET", "", "", "")
    \/ \E u \in LoginUsernames, p \in LoginPasswords, n \in NextPages :
          Login("POST", u, p, n)
    \/ Logout
    \/ \E l \in ListingIds : ListingDetail(l, "GET", << >>, 0)
    \/ \E l \in ListingIds, c \in Contents, t \in Times : ListingDetail(l, "POST", c, t)
    \/ CreateListing("GET", "", "")
    \/ \E t \in Titles, a \in Titles : CreateListing("POST", t, a)
    \/ MyListings
    \/ MessagesOverview

Spec == Init /\ [][Next]_vars

\* =============================================================== claims
\* Each claim about a handler is stated of the state the handler leaves,
\* for every request it may get in every reachable state.
UserIds == 1..Len(User)
username_taken(username) == \E i \in UserIds : User[i].username = username
email_taken(email) == \E i \in UserIds : User[i].email = email
SelfMessageWarning == flash("You cannot message yourself about your own listing.", "warning")
MessageSent == flash("Message sent.", "success")
ConflictNotices == {flash("Username already taken.", "danger"),
                    flash("Email already registered.", "danger")}
RegisteredNotice == flash("Registration successful! Welcome to the book exchange.", "success")
InvalidLogin == redirect(flash("Invalid username or password.", "danger"), url_for("login", 0))
\* Redirected to the login page, nothing written.
AuthError(out) ==
    /\ out.resp.status = 302
    /\ out.resp.location = url_for("login", 0)
    /\ out.User = User /\ out.Listing = Listing /\ out.Message = Message
\* The partner of user_id in msg, and the conversation key of msg for user_id.
partner_of(msg, user_id) ==
    IF msg.sender_id = user_id THEN msg.receiver_id ELSE msg.sender_id
key_of(msg, user_id) == <<msg.listing_id, partner_of(msg, user_id)>>

\* ------------------------------------------------------------------ C1
\* C1: a logged-in owner who posts a non-empty message on the own listing
\* gets the self-message warning and the message table is unchanged; any
\* other logged-in user who posts one adds exactly one row, from that user
\* to the owner about that listing, and is redirected to the listing page.
C1_SendMessage ==
    is_authenticated =>
        \A l \in 1..Len(Listing), c \in Contents \ {<< >>}, t \in Times :
            LET out == listing_detail(l, "POST", c, t) IN
            IF current_user = Listing[l].owner_id
            THEN /\ out.resp.flash = SelfMessageWarning
                 /\ out.resp.status = 200
                 /\ out.Message = Message
            ELSE /\ Len(out.Message) = Len(Message) + 1
                 /\ SubSeq(out.Message, 1, Len(Message)) = Message
                 /\ out.Message[Len(out.Message)].sender_id = current_user
                 /\ out.Message[Len(out.Message)].receiver_id = Listing[l].owner_id
                 /\ out.Message[Len(out.Message)].listing_id = l
                 /\ out.resp.flash = MessageSent
                 /\ out.resp.status = 302
                 /\ out.resp.location = url_for("listing_detail", l)

\* An owner has just been refused on a listing that already has a message
\* from another user.
C1_Witness ==
    /\ resp.flash = SelfMessageWarning
    /\ \E i \in 1..Len(Message) : Message[i].listing_id = context.listing

\* ------------------------------------------------------------------ C2
\* C2: in every reachable state every stored message has a sender other
\* than its receiver, and its receiver owns the listing it is about.
C2_MessageAddressing ==
    \A i \in 1..Len(Message) :
        /\ Message[i].sender_id # Message[i].receiver_id
        /\ Message[i].listing_id \in 1..Len(Listing)
        /\ Message[i].receiver_id = Listing[Message[i].listing_id].owner_id

\* The message table is full, and the owner has been refused since.
C2_Witness == Len(Message) = MaxMessages /\ resp.flash = SelfMessageWarning

\* ------------------------------------------------------------------ C3
\* C3 (as amended): a registration with a taken username or a taken email
\* creates no user; when its fields are all given and the passwords match
\* it is answered with the duplicate notice; and no two users ever share a
\* username or an email.
C3_NoDuplicate ==
    /\ \A i, j \in UserIds :
          i # j => User[i].username # User[j].username /\ User[i].email # User[j].email
    /\ \A u \in Usernames, e \in Emails, p \in Passwords, c \in Passwords :
          (username_taken(u) \/ email_taken(e)) =>
              LET out == register("POST", u, e, p, c) IN
              /\ out.User = User
              /\ out.resp.status = 302
              /\ (u # "" /\ e # "" /\ p # "" /\ p = c) => out.resp.flash \in ConflictNotices

\* C3 as stated: every registration with a taken username or email is
\* answered with the duplicate notice and creates no user.
C3_Original ==
    \A u \in Usernames, e \in Emails, p \in Passwords, c \in Passwords :
        (username_taken(u) \/ email_taken(e)) =>
            LET out == register("POST", u, e, p, c) IN
            /\ out.User = User
            /\ out.resp.flash \in ConflictNotices

\* A registration was refused for its email alone.
C3_Witness ==
    /\ resp.flash = flash("Email already registered.", "danger")
    /\ Len(User) = 1

\* ------------------------------------------------------------------ C4
\* The registration of (u, e) succeeded: one more user, with that username
\* and email, and the session is theirs.
C4_Registered(out, u, e) ==
    /\ Len(out.User) = Len(User) + 1
    /\ SubSeq(out.User, 1, Len(User)) = User
    /\ out.User[Len(out.User)].username = u
    /\ out.User[Len(out.User)].email = e
    /\ out.current_user = Len(out.User)
    /\ out.resp.flash = RegisteredNotice

\* C4 (as amended): a registration with a non-empty username, email and
\* password, the confirmation equal to the password, and neither the
\* username nor the email taken, adds exactly one user with that username
\* and email and logs the session in as that user.
C4_RegisterSucceeds ==
    \A u \in Usernames, e \in Emails, p \in Passwords, c \in Passwords :
        (u # "" /\ e # "" /\ p # "" /\ p = c /\ ~username_taken(u) /\ ~email_taken(e)) =>
            C4_Registered(register("POST", u, e, p, c), u, e)

\* C4 as stated: an unused username and email and matching passwords suffice.
C4_Original ==
    \A u \in Usernames, e \in Emails, p \in Passwords, c \in Passwords :
        (p = c /\ ~username_taken(u) /\ ~email_taken(e)) =>
            C4_Registered(register("POST", u, e, p, c), u, e)

\* A second user has just registered, and the session is theirs.
C4_Witness == resp.flash = RegisteredNotice /\ Len(User) = 2 /\ current_user = 2

\* ------------------------------------------------------------------ C5
\* C5: a login with a known username and a wrong password leaves the same
\* response and session as the same login against the user table without
\* that user, and the same state as a login with a username nobody has:
\* the generic notice, a redirect to the login page, the session and the
\* tables as they were.
C5_without(username) == SelectSeq(User, LAMBDA row : row.username # username)

RECURSIVE C6_lstrip(_)
C6_lstrip(text) ==
    IF text # << >> /\ Head(text) = " " THEN C6_lstrip(Tail(text)) ELSE text
RECURSIVE C6_rstrip(_)
C6_rstrip(text) ==
    IF text # << >> /\ text[Len(text)] = " "
    THEN C6_rstrip(SubSeq(text, 1, Len(text) - 1)) ELSE text
C6_strip(text) == C6_rstrip(C6_lstrip(text))

\* C6 (as amended): no stored message has empty content (the content is
\* not trimmed: whitespace counts as content).
C6_ContentNonEmpty == \A i \in 1..Len(Message) : Message[i].content # << >>

\* C6 as stated: no stored message has content that is empty once trimmed.
C6_Original == \A i \in 1..Len(Message) : C6_strip(Message[i].content) # << >>

\* A message of whitespace alone has just been stored.
C6_Witness ==
    /\ resp.flash = MessageSent
    /\ Message[Len(Message)].content = <<" ">>

\* ------------------------------------------------------------------ C7
\* C7: logout, create listing, my listings, the messages overview and a
\* message post on an existing listing, when nobody is logged in, are
\* answered with the redirect to the login page and write nothing.
C7_ProtectedActions ==
    ~is_authenticated =>
        /\ AuthError(logout)
        /\ \A m \in Methods, t \in Titles, a \in Titles : AuthError(create_listing(m, t, a))
        /\ AuthError(my_listings)
        /\ AuthError(messages_overview(<< >>))
        /\ \A l \in 1..Len(Listing), c \in Contents, t \in Times :
              AuthError(listing_detail(l, "POST", c, t))

C9_latest(scan, k) ==
    {i \in DOMAIN scan :
        /\ key_of(Message[scan[i]], current_user) = k
        /\ \A j \in DOMAIN scan :
              key_of(Message[scan[j]], current_user) = k
                 => Message[scan[j]].timestamp <= Message[scan[i]].timestamp}

\* C9 (as amended): when several messages of a key share its greatest
\* timestamp, the overview keeps the first of them in scan order.
C9_FirstWins ==
    is_authenticated =>
        \A scan \in ScanOrders(involving(current_user)) :
            LET conv == messages_overview(scan).context.conversations IN
            \A k \in DOMAIN conv :
                \E i \in C9_latest(scan, k) :
                    /\ conv[k] = Message[scan[i]]
                    /\ \A j \in C9_latest(scan, k) : i <= j

\* C9 as stated: it keeps the last of them in scan order.
C9_Original ==
    is_authenticated =>
        \A scan \in ScanOrders(involving(current_user)) :
            LET conv == messages_overview(scan).context.conversations IN
            \A k \in DOMAIN conv :
                \E i \in C9_latest(scan, k) :
                    /\ conv[k] = Message[scan[i]]
                    /\ \A j \in C9_latest(scan, k) : j <= i

\* The overview has just been rendered for a user with two messages of one
\* key and one timestamp.
C9_Witness ==
    /\ resp.template = "messages.html"
    /\ \E i, j \in involving(current_user) :
          /\ i # j
          /\ Message[i].timestamp = Message[j].timestamp
          /\ key_of(Message[i], current_user) = key_of(Message[j], current_user)

\* ----------------------------------------------------------------- C10
\* `messages` holds each stored message of the listing exchanged between
\* the two users exactly once and nothing else, oldest first.
C10_exact(messages, listing_id, user_a, user_b) ==
    /\ \A i, j \in DOMAIN messages :
          /\ i < j => messages[i].timestamp <= messages[j].timestamp
          /\ messages[i] = messages[j] => i = j
    /\ {messages[i] : i \in DOMAIN messages} =
          {Message[i] : i \in {j \in 1..Len(Message) :
              /\ Message[j].listing_id = listing_id
              /\ {Message[j].sender_id, Message[j].receiver_id} = {user_a, user_b}}}

====
